---- MODULE Spec2Model ----
(***************************************************************************)
(* Model of app.py (BIXI Montreal dashboard): the memoized aggregation     *)
(* charger_donnees(annee) and the script main() that Streamlit re-executes *)
(* on every interaction.                                                   *)
(*                                                                         *)
(* Numbers that are floats in the program (percentages, the mean) are kept *)
(* as exact fractions [num, den], so that "sums to 100" is decided on the  *)
(* row counts and not on rounding.                                         *)
(***************************************************************************)
EXTENDS Integers, Sequences, FiniteSets, TLC

VARIABLES
    disk,                \* ./bixis : year directory name -> its content, or NoDir
    cache,               \* st.cache_data store of charger_donnees : year -> entry
    lectures,            \* year -> number of times its files were read from storage
    widget,              \* session value of the selectbox (Unset before any choice)
    annee_selectionnee,  \* value returned by st.selectbox in the last run of main
    resultats_annee,     \* value returned by charger_donnees in the last run of main
    ecran,               \* elements the last run of main put on the page
    dernier              \* the last run's call of charger_donnees : "aucun", "miss", "hit"

vars == <<disk, cache, lectures, widget, annee_selectionnee, resultats_annee,
          ecran, dernier>>

----------------------------------------------------------------------------
(* Bounds of the model                                                     *)

MaxTrips == 2        \* rows of the concatenated trip table drawn by InitAgg
MaxLectures == 3     \* cap on the per-year read counter

----------------------------------------------------------------------------
(* Values                                                                  *)

None == [type |-> "None"]
Unset == 0           \* the selectbox has no session value yet
NoDir == [type |-> "NoDir"]

\* pd.to_datetime turns a missing start_date cell into NaT; .dt.hour of NaT is
\* NaN.  NaN compares false with every bin edge; the sentinel is below every
\* edge and is only ever tested by the comparisons of cut.
NaT == -1
\* A start_date string pd.to_datetime cannot parse (it raises).
Unparseable == -2

Hours == 0..23
labels == <<"0h-6h", "6h-12h", "12h-18h", "18h-24h">>
bins == <<0, 6, 12, 18, 24>>
include_lowest == TRUE
NaN == "NaN"         \* the missing category pd.cut gives a value outside the bins

RECURSIVE SumSeq(_)
SumSeq(s) == IF s = <<>> THEN 0 ELSE Head(s) + SumSeq(Tail(s))

RECURSIVE Concat(_)
\* pd.concat(df_list, ignore_index=True) on a non-empty list of frames
Concat(df_list) ==
    IF df_list = <<>> THEN <<>> ELSE Head(df_list) \o Concat(Tail(df_list))

\* The index of a frame's rows
Rows(df) == 1..Len(df)

----------------------------------------------------------------------------
(* pd.cut(hour, bins=[0,6,12,18,24], labels=labels, include_lowest=True)    *)
(* Intervals are closed on the right (right=True is the default):          *)
(* [0,6], (6,12], (12,18], (18,24].                                         *)

InBin(x, i) ==
    /\ \/ bins[i] < x
       \/ include_lowest /\ i = 1 /\ x = bins[1]
    /\ x <= bins[i + 1]

cut(x) ==
    IF \E i \in 1..Len(labels) : InBin(x, i)
    THEN labels[CHOOSE i \in 1..Len(labels) : InBin(x, i)]
    ELSE NaN

\* df_annee['period'].value_counts() : a categorical counts every category,
\* also those with no row, and drops the rows whose period is NaN.
value_counts(df) ==
    [l \in {labels[i] : i \in 1..Len(labels)} |->
        Cardinality({i \in Rows(df) : cut(df[i].hour) = l})]

----------------------------------------------------------------------------
(* The storage ./bixis/<annee>/ : file name -> file content                 *)

Years == {2013, 2014}          \* names of the year directories under ./bixis
AnneeDefaut == 2014            \* the year main passes to index()

\* Names a year directory may hold, in the order os.listdir reports them.
\* "Stations_annee.csv" stands for f"Stations_{annee}.csv".
ListOrder == <<"OD_04.csv", "OD_05.csv", "Stations_annee.csv",
               "Stations_old.csv", "notes.txt">>

endswith_csv(f) ==
    f \in {"OD_04.csv", "OD_05.csv", "Stations_annee.csv", "Stations_old.csv"}
startswith_Stations(f) == f \in {"Stations_annee.csv", "Stations_old.csv"}

\* A station file is its separator and the names of its columns.
StationFile(sep, noms) == [sep |-> sep, noms |-> noms]
JoinedHeader == "<header joined by ;>"

\* df_stations = pd.read_csv(path); re-read with sep=';' when the naive parse
\* gives one column whose name contains ';'.  The value is the set of columns.
read_csv_stations(f) ==
    LET naive == IF f.sep = "," \/ Cardinality(f.noms) <= 1
                 THEN f.noms ELSE {JoinedHeader}
    IN  IF Cardinality(naive) = 1 /\ JoinedHeader \in naive
        THEN f.noms
        ELSE naive

\* A trip row: the hour of its start_date (NaT when the cell is missing,
\* Unparseable when the string is no date), and the columns the statistics use.
Trip(h, m, dur, s, e) ==
    [hour |-> h, is_member |-> m, duration_sec |-> dur,
     start_station_code |-> s, end_station_code |-> e]

RECURSIVE SelectNames(_, _)
\* [f for f in os.listdir(chemin_annee) if f.endswith('.csv') and not f.startswith('Stations')]
SelectNames(names, present) ==
    IF names = <<>> THEN <<>>
    ELSE LET f == Head(names)
             rest == SelectNames(Tail(names), present)
         IN  IF f \in present /\ endswith_csv(f) /\ ~startswith_Stations(f)
             THEN <<f>> \o rest
             ELSE rest

fichiers_trajets(chemin_annee) == SelectNames(ListOrder, DOMAIN chemin_annee)

----------------------------------------------------------------------------
(* charger_donnees                                                         *)

Frac(n, d) == [num |-> n, den |-> d]

EchecNonCapture(e, resultats) ==
    [valeur |-> None, erreur |-> "aucune", exception |-> e]
EchecPartiel(e, resultats) ==
    [valeur |-> resultats, erreur |-> e, exception |-> "aucune"]
\* The except clause: st.error(...) then return None.
Echec(e, resultats) ==
    [valeur |-> None, erreur |-> e, exception |-> "aucune"]

Succes(resultats) ==
    [valeur |-> resultats, erreur |-> "aucune", exception |-> "aucune"]

membres_non_zero(df_annee) ==
    Cardinality({i \in Rows(df_annee) : df_annee[i].is_member # 0})
\* len(df_annee[df_annee['is_member'] == 1])
membres(df_annee) ==
    Cardinality({i \in Rows(df_annee) : df_annee[i].is_member = 1})
\* len(df_annee[df_annee['is_member'] == 0])
occasionnels(df_annee) ==
    Cardinality({i \in Rows(df_annee) : df_annee[i].is_member = 0})

\* (compte_periodes / len(df_annee)) * 100
repartition_periodes(df_annee) ==
    LET compte_periodes == value_counts(df_annee)
    IN  [l \in DOMAIN compte_periodes |->
            Frac(100 * compte_periodes[l], Len(df_annee))]

\* The statistics with a division that gives NaN (0/0) instead of raising.
StatistiquesSansErreur(gdf_stations, df_annee) ==
    Succes(("stations" :> gdf_stations) @@
           ("duree_moyenne" :>
               Frac(SumSeq([i \in 1..Len(df_annee) |-> df_annee[i].duration_sec]),
                    60 * Len(df_annee))) @@
           ("proportion_boucle" :>
               Frac(100 * Cardinality({i \in Rows(df_annee) :
                       df_annee[i].start_station_code = df_annee[i].end_station_code}),
                    Len(df_annee))) @@
           ("membres" :> membres(df_annee)) @@
           ("occasionnels" :> occasionnels(df_annee)) @@
           ("repartition_periodes" :> repartition_periodes(df_annee)))

\* The statistics block, in statement order; the first statement that raises
\* ends it with the dictionary as filled so far.
Statistiques(gdf_stations, df_annee) ==
    LET r1 == ("stations" :> gdf_stations) @@
              ("duree_moyenne" :>
                  Frac(SumSeq([i \in 1..Len(df_annee) |-> df_annee[i].duration_sec]),
                       60 * Len(df_annee)))
        trajets_boucle ==
            Cardinality({i \in Rows(df_annee) :
                df_annee[i].start_station_code = df_annee[i].end_station_code})
    IN  IF Len(df_annee) = 0
        THEN Echec("ZeroDivisionError", r1)
        ELSE Succes(r1 @@
                    ("proportion_boucle" :> Frac(100 * trajets_boucle, Len(df_annee))) @@
                    ("membres" :> membres(df_annee)) @@
                    ("occasionnels" :> occasionnels(df_annee)) @@
                    ("repartition_periodes" :> repartition_periodes(df_annee)))

\* The body of charger_donnees(annee) run against the storage bixis.
charger_donnees(annee, bixis) ==
    LET chemin_annee == bixis[annee]
        resultats == <<>>
    IN  IF chemin_annee = NoDir \/ "Stations_annee.csv" \notin DOMAIN chemin_annee
        THEN Echec("FileNotFoundError", resultats)
        ELSE
        LET df_stations == read_csv_stations(chemin_annee["Stations_annee.csv"])
        IN  IF ~({"longitude", "latitude"} \subseteq df_stations)
            THEN Echec("KeyError", resultats)
            ELSE
            LET fichiers == fichiers_trajets(chemin_annee)
                df_list == [i \in 1..Len(fichiers) |-> chemin_annee[fichiers[i]]]
            IN  IF df_list = <<>>
                THEN Echec("ValueError: No objects to concatenate", resultats)
                ELSE
                LET df_annee == Concat(df_list)
                IN  IF \E i \in 1..Len(df_annee) : df_annee[i].hour = Unparseable
                    THEN Echec("DateParseError", resultats)
                    ELSE Statistiques(df_stations, df_annee)

----------------------------------------------------------------------------
(* @st.cache_data : the memo of charger_donnees, keyed by its argument      *)

Miss == [type |-> "miss"]
Hit(sortie) == [type |-> "hit", sortie |-> sortie]

\* A call that returns (a dictionary or None) is stored with the st.error it
\* emitted, which is replayed on a hit; a call that raises stores nothing.
cache_store_evict(c, annee, sortie) ==
    [y \in DOMAIN c |-> IF y = annee THEN Hit(sortie) ELSE Miss]
cache_store_success_only(c, annee, sortie) ==
    IF sortie.valeur = None THEN c ELSE [c EXCEPT ![annee] = Hit(sortie)]
cache_store(c, annee, sortie) ==
    IF sortie.exception # "aucune" THEN c ELSE [c EXCEPT ![annee] = Hit(sortie)]

----------------------------------------------------------------------------
(* main                                                                    *)

\* annees_disponibles : the year directories present, sorted
RECURSIVE SortSet(_)
SortSet(S) ==
    IF S = {} THEN <<>>
    ELSE LET m == CHOOSE x \in S : \A y \in S : x <= y
         IN  <<m>> \o SortSet(S \ {m})

annees_disponibles(bixis) == SortSet({d \in DOMAIN bixis : bixis[d] # NoDir})

InSeq(x, s) == \E i \in 1..Len(s) : s[i] = x

\* st.selectbox(label, options, index) : the session's value while it is among
\* the options, the option at index otherwise.
selectbox(options, index, valeur) ==
    IF InSeq(valeur, options) THEN valeur ELSE options[index]

bool(resultats) == resultats # None /\ DOMAIN resultats # {}

\* The elements the `if resultats_annee:` block puts on the page, in order, and
\* the dictionary keys each one reads.
Blocs == <<"duree_moyenne", "proportion_boucle", "membres", "occasionnels",
           "stations", "repartition_periodes">>

\* creer_carte reads station['name'] of every station.
BlocOk(resultats, k) ==
    /\ k \in DOMAIN resultats
    /\ k = "stations" => "name" \in resultats[k]

RECURSIVE Rendu(_, _)
\* Renders the blocks left to right until one raises.
Rendu(resultats, blocs) ==
    IF blocs = <<>> THEN {"pied"}
    ELSE IF BlocOk(resultats, Head(blocs))
         THEN {Head(blocs)} \cup Rendu(resultats, Tail(blocs))
         ELSE {"exception"}

\* One execution of the script, the selectbox holding `valeur`.
RunMain(valeur) ==
    LET options == annees_disponibles(disk)
    IN
    IF ~InSeq(AnneeDefaut, options)
    THEN \* annees_disponibles.index('2014') raises ValueError
         /\ annee_selectionnee' = Unset
         /\ resultats_annee' = None
         /\ ecran' = {"entete", "exception"}
         /\ dernier' = "aucun"
         /\ widget' = valeur
         /\ UNCHANGED <<disk, cache, lectures>>
    ELSE
    LET index == CHOOSE i \in 1..Len(options) : options[i] = AnneeDefaut
        annee == selectbox(options, index, valeur)
        hit == cache[annee] # Miss
        sortie == IF hit THEN cache[annee].sortie ELSE charger_donnees(annee, disk)
        page == {"entete", "selecteur"}
                  \cup (IF sortie.erreur # "aucune" THEN {"erreur"} ELSE {})
    IN  /\ hit \/ lectures[annee] < MaxLectures
        /\ annee_selectionnee' = annee
        /\ widget' = annee
        /\ dernier' = IF hit THEN "hit" ELSE "miss"
        /\ lectures' = IF hit THEN lectures
                       ELSE [lectures EXCEPT ![annee] = @ + 1]
        /\ cache' = IF hit THEN cache ELSE cache_store(cache, annee, sortie)
        /\ UNCHANGED disk
        /\ IF sortie.exception # "aucune"
           THEN /\ resultats_annee' = None
                /\ ecran' = page \cup {"exception"}
           ELSE /\ resultats_annee' = sortie.valeur
                /\ ecran' = IF bool(sortie.valeur)
                            THEN page \cup Rendu(sortie.valeur, Blocs)
                            ELSE page

\* Streamlit re-executes the script without a change of the selection.
Main == RunMain(widget)

\* The user picks year y in the selectbox of the page; the script re-executes.
Select(y) ==
    /\ "selecteur" \in ecran
    /\ disk[y] # NoDir
    /\ RunMain(y)

----------------------------------------------------------------------------
(* Storage contents                                                        *)

StationsOk == StationFile(",", {"code", "name", "latitude", "longitude"})
StationsPointVirgule == StationFile(";", {"code", "name", "latitude", "longitude"})
StationsSansNom == StationFile(",", {"code", "latitude", "longitude"})
StationsSansCoord == StationFile(",", {"code", "name"})

\* The two trips of the specification's example.
TrajetsExemple == <<Trip(8, 1, 600, 1, 1), Trip(17, 0, 1200, 1, 2)>>

SampleDirs ==
    { ("Stations_annee.csv" :> StationsOk) @@ ("OD_04.csv" :> TrajetsExemple),
      ("Stations_annee.csv" :> StationsPointVirgule) @@
          ("OD_04.csv" :> <<Trip(0, 1, 600, 1, 2)>>) @@
          ("OD_05.csv" :> <<Trip(23, 2, 300, 2, 2)>>),
      ("Stations_annee.csv" :> StationsOk) @@ ("Stations_old.csv" :> StationsOk) @@
          ("notes.txt" :> <<>>),
      ("Stations_annee.csv" :> StationsOk) @@ ("OD_04.csv" :> <<>>),
      ("Stations_annee.csv" :> StationsSansNom) @@ ("OD_04.csv" :> TrajetsExemple),
      ("Stations_annee.csv" :> StationsSansCoord) @@ ("OD_04.csv" :> TrajetsExemple),
      ("OD_04.csv" :> TrajetsExemple),
      ("Stations_annee.csv" :> StationsOk) @@
          ("OD_04.csv" :> <<Trip(Unparseable, 1, 600, 1, 2)>>) }

\* The files of a year directory are replaced from outside the program.
EditDisk(y, d) ==
    /\ disk[y] # d
    /\ disk' = [disk EXCEPT ![y] = d]
    /\ UNCHANGED <<cache, lectures, widget, annee_selectionnee, resultats_annee,
                   ecran, dernier>>

InitSession ==
    /\ cache = [y \in Years |-> Miss]
    /\ lectures = [y \in Years |-> 0]
    /\ widget = Unset
    /\ annee_selectionnee = Unset
    /\ resultats_annee = None
    /\ ecran = {}
    /\ dernier = "aucun"

Init ==
    /\ disk \in [Years -> SampleDirs \cup {NoDir}]
    /\ InitSession

Next ==
    \/ Main
    \/ \E y \in Years : Select(y)
    \/ \E y \in Years, d \in SampleDirs \cup {NoDir} : EditDisk(y, d)

Spec == Init /\ [][Next]_vars

----------------------------------------------------------------------------
(* The aggregation on every small trip table                               *)

HourDomain == Hours \cup {NaT}
FlagDomain == {0, 1, 2}        \* 2 : any value that is neither 0 nor 1

TripDomain == {Trip(h, m, 600, 1, 1) : h \in HourDomain, m \in FlagDomain}

SeqUpTo(S, n) == UNION {[1..k -> S] : k \in 0..n}

\* The statistics are counts and sums over the rows, and the order of the rows
\* is that of os.listdir: one table is drawn per multiset of rows, its rows
\* listed by hour, then by is_member.
Ordered(df) ==
    \A i \in 1..(Len(df) - 1) :
        \/ df[i].hour < df[i + 1].hour
        \/ df[i].hour = df[i + 1].hour /\ df[i].is_member <= df[i + 1].is_member

InitAgg ==
    /\ \E df \in {t \in SeqUpTo(TripDomain, MaxTrips) : Ordered(t)} :
          disk = [y \in Years |->
                    IF y = AnneeDefaut
                    THEN ("Stations_annee.csv" :> StationsOk) @@ ("OD_04.csv" :> df)
                    ELSE NoDir]
    /\ InitSession

NextAgg == Main

SpecAgg == InitAgg /\ [][NextAgg]_vars

----------------------------------------------------------------------------
(* Properties                                                              *)

LabelSet == {labels[i] : i \in 1..Len(labels)}
Champs == {"stations", "duree_moyenne", "proportion_boucle", "membres",
           "occasionnels", "repartition_periodes"}
BlocSet == {Blocs[i] : i \in 1..Len(Blocs)}

\* The trip table the files of directory d concatenate to.
TableOf(d) ==
    LET fichiers == fichiers_trajets(d)
    IN  Concat([i \in 1..Len(fichiers) |-> d[fichiers[i]]])

\* Under SpecAgg the storage never changes: the table the last run loaded.
df_charge == TableOf(disk[AnneeDefaut])
Charge == annee_selectionnee = AnneeDefaut /\ Len(df_charge) > 0

\* The half-open bucket [0,6), [6,12), [12,18), [18,24) of an hour in 0..23
DemiOuvert(h) == labels[(h \div 6) + 1]

SommePeriodes(r) == SumSeq([i \in 1..Len(labels) |-> r[labels[i]].num])

\* A step of main (the storage is never touched by the program).
ExecMain == disk' = disk
SansTrajets(d) ==
    d # NoDir /\ "Stations_annee.csv" \in DOMAIN d /\ fichiers_trajets(d) = <<>>

\* C1 : every trip whose start hour h is in 0..23 is counted in the period of
\* the half-open bucket containing h, so hours 6, 12 and 18 count in the
\* bucket that starts at that hour: each period's share is 100 times the
\* number of trips whose half-open bucket it is, over N.
C1_DemiOuvert ==
    Charge =>
        /\ resultats_annee # None
        /\ \A l \in LabelSet :
              resultats_annee["repartition_periodes"][l].num =
                  100 * Cardinality({i \in Rows(df_charge) :
                            /\ df_charge[i].hour \in Hours
                            /\ DemiOuvert(df_charge[i].hour) = l})

\* C2 : a trip starting at hour 0 is assigned to '0h-6h', a trip starting at
\* hour 23 to '18h-24h', and every loaded trip is counted in exactly one
\* period (the four counts add up to the number of trips).
C2_UnePeriodeParTrajet ==
    Charge =>
        /\ resultats_annee # None
        /\ \A i \in Rows(df_charge) :
              /\ df_charge[i].hour = 0 => cut(df_charge[i].hour) = "0h-6h"
              /\ df_charge[i].hour = 23 => cut(df_charge[i].hour) = "18h-24h"
              /\ Cardinality({l \in LabelSet : cut(df_charge[i].hour) = l}) = 1
        /\ SommePeriodes(resultats_annee["repartition_periodes"]) =
              100 * Len(df_charge)

\* C3 : for a non-empty table of N trips each of the four shares is between
\* 0 and 100 and the four shares sum to 100 (the counts are in 0..N and sum
\* to N).
C3_SommeCent ==
    Charge =>
        /\ resultats_annee # None
        /\ LET r == resultats_annee["repartition_periodes"]
           IN  /\ \A l \in LabelSet :
                     /\ r[l].den = Len(df_charge)
                     /\ 0 <= r[l].num /\ r[l].num <= 100 * r[l].den
               /\ SommePeriodes(r) = 100 * Len(df_charge)

\* C4 : for N > 0 trips, membres + occasionnels <= N, with equality exactly
\* when every is_member flag is 0 or 1; a flag that is neither is counted in
\* neither and the load still succeeds.
C4_MembresOccasionnels ==
    Charge =>
        /\ resultats_annee # None
        /\ resultats_annee["membres"] + resultats_annee["occasionnels"]
              <= Len(df_charge)
        /\ (resultats_annee["membres"] + resultats_annee["occasionnels"]
              = Len(df_charge))
           <=> (\A i \in Rows(df_charge) : df_charge[i].is_member \in {0, 1})
        /\ resultats_annee["membres"] + resultats_annee["occasionnels"] =
              Cardinality({i \in Rows(df_charge) :
                              df_charge[i].is_member \in {0, 1}})

C4_Witness ==
    /\ Charge
    /\ resultats_annee # None
    /\ \E i \in Rows(df_charge) : df_charge[i].is_member \notin {0, 1}
    /\ \E i \in Rows(df_charge) : df_charge[i].is_member = 1
    /\ resultats_annee["membres"] + resultats_annee["occasionnels"] = 1
    /\ Len(df_charge) = 2

\* C5 : a run that loads a year whose directory has the station file and no
\* trip file ends in a reported failure: no exception reaches main and the
\* value returned is None, not a dictionary (not even an empty one).
C5_SansTrajetsEchec ==
    [][ (ExecMain /\ dernier' = "miss" /\ lectures' # lectures
            /\ SansTrajets(disk[annee_selectionnee']))
        => /\ resultats_annee' = None
           /\ "erreur" \in ecran'
           /\ "exception" \notin ecran'
           /\ ecran' \cap BlocSet = {} ]_vars

C5_Witness ==
    /\ annee_selectionnee # Unset
    /\ dernier = "miss"
    /\ SansTrajets(disk[annee_selectionnee])
    /\ StationsOk = disk[annee_selectionnee]["Stations_annee.csv"]
    /\ cache[annee_selectionnee] # Miss
    /\ cache[annee_selectionnee].sortie.erreur =
          "ValueError: No objects to concatenate"
    /\ resultats_annee = None
    /\ "erreur" \in ecran

\* C6 : in a session the files of a year are read at most once; a year already
\* loaded is served from the memo without a read, and loading another year
\* leaves every earlier entry in place.
C6_UneLectureParAnnee ==
    /\ [](\A y \in Years : lectures[y] <= 1)
    /\ [][ \A y \in Years :
              cache[y] # Miss =>
                  /\ cache'[y] = cache[y]
                  /\ lectures'[y] = lectures[y]
                  /\ (ExecMain /\ annee_selectionnee' = y /\ dernier' # "aucun")
                        => resultats_annee' = cache[y].sortie.valeur ]_vars

C6_Witness ==
    /\ \A y \in Years : lectures[y] = 1 /\ cache[y] # Miss
    /\ dernier = "hit"
    /\ bool(resultats_annee)

\* C7 : a failure of the load (station file, trip files or statistics) gives
\* None, one error notification and none of the cards, map or chart; any of
\* these is on the page only when the result has all six fields.
C7_ToutOuRien ==
    /\ ("selecteur" \in ecran /\ resultats_annee = None)
          => ecran = {"entete", "selecteur", "erreur"}
    /\ (ecran \cap BlocSet # {})
          => /\ resultats_annee # None
             /\ DOMAIN resultats_annee = Champs
             /\ "erreur" \notin ecran

C7_Witness ==
    /\ annee_selectionnee # Unset
    /\ cache[annee_selectionnee] # Miss
    /\ cache[annee_selectionnee].sortie.erreur = "ZeroDivisionError"
    /\ resultats_annee = None
    /\ ecran = {"entete", "selecteur", "erreur"}

\* C8 : the selector offers the sorted year directories, shows 2014 by default
\* when it is among them, and when 2014 is not among them main still selects
\* a year of the list and loads it instead of failing.
C8_AnneeDeRepli ==
    [][ (ExecMain /\ annees_disponibles(disk) # <<>>)
        => /\ "selecteur" \in ecran'
           /\ InSeq(annee_selectionnee', annees_disponibles(disk))
           /\ dernier' # "aucun"
           /\ (widget = Unset /\ InSeq(AnneeDefaut, annees_disponibles(disk)))
                 => annee_selectionnee' = AnneeDefaut ]_vars

\* C9 : a year with at least one trip file and zero rows in all fails: the
\* division by the row count raises, the error is caught and reported, None
\* is returned, and no result with an undefined share is returned or rendered.
C9_ZeroLigne ==
    [][ (ExecMain /\ dernier' = "miss" /\ lectures' # lectures
            /\ disk[annee_selectionnee'] # NoDir
            /\ fichiers_trajets(disk[annee_selectionnee']) # <<>>
            /\ Len(TableOf(disk[annee_selectionnee'])) = 0)
        => /\ resultats_annee' = None
           /\ "erreur" \in ecran'
           /\ "exception" \notin ecran'
           /\ ecran' \cap BlocSet = {}
           /\ cache'[annee_selectionnee'].sortie.valeur = None
           /\ ("Stations_annee.csv" \in DOMAIN disk[annee_selectionnee']
                 /\ disk[annee_selectionnee']["Stations_annee.csv"] = StationsOk)
                 => cache'[annee_selectionnee'].sortie.erreur = "ZeroDivisionError"
       ]_vars

C9_Witness ==
    /\ annee_selectionnee # Unset
    /\ dernier = "miss"
    /\ disk[annee_selectionnee] # NoDir
    /\ fichiers_trajets(disk[annee_selectionnee]) # <<>>
    /\ Len(TableOf(disk[annee_selectionnee])) = 0
    /\ cache[annee_selectionnee] # Miss
    /\ cache[annee_selectionnee].sortie.erreur = "ZeroDivisionError"
    /\ resultats_annee = None
    /\ "erreur" \in ecran

\* C10 : a failed load is memoized like a success: the None it returned is
\* stored under the year, and every later selection of that year gives the
\* failure again without a read, whatever the files have become.
C10_EchecMemorise ==
    [][ /\ (ExecMain /\ dernier' = "miss" /\ lectures' # lectures
               /\ resultats_annee' = None)
          => /\ cache'[annee_selectionnee'] # Miss
             /\ cache'[annee_selectionnee'].sortie.valeur = None
        /\ \A y \in Years :
              (cache[y] # Miss /\ cache[y].sortie.valeur = None
                  /\ ExecMain /\ annee_selectionnee' = y /\ dernier' # "aucun")
              => /\ lectures' = lectures
                 /\ resultats_annee' = None
                 /\ "erreur" \in ecran'
                 /\ ecran' \cap BlocSet = {} ]_vars

C10_Witness ==
    /\ annee_selectionnee # Unset
    /\ dernier = "hit"
    /\ resultats_annee = None
    /\ "erreur" \in ecran
    /\ lectures[annee_selectionnee] = 1
    /\ bool(charger_donnees(annee_selectionnee, disk).valeur)

====
